---- MODULE Spec2Model ----
(***************************************************************************)
(* A model of the multi-agent orchestrator of lg-multi-agent-plan.py:      *)
(* identifier extraction (WO_REGEX / PROD_REGEX and the normalisation of   *)
(* a match), the planner's ingestion of the planning oracle's response,    *)
(* the specialist nodes, the final answer node and the plan-queue loop     *)
(* (next_step_router / pop_step_node) as wired by build_orchestrator_graph;*)
(* of the intent-router graph of lg-multi-agent.py; and of the tool-calling*)
(* loop of lg-multi-agent-react.py.                                        *)
(*                                                                         *)
(* A Python str is a sequence of one-character strings.  The state dict of *)
(* the graph is a function whose DOMAIN is the set of keys present.        *)
(***************************************************************************)
EXTENDS Integers, Sequences, FiniteSets, TLC

VARIABLES
    pc,       \* the node the graph runs next ("planner", a step, "pop_step"), or how the run ended
    state,    \* OrchestratorState: the keys written so far and their values
    resp,     \* the planning oracle's response, once the planner has asked for it
    trace,    \* history: one record per node executed (node, state it read, update it returned)
    xpc,      \* extraction harness: "input", "extracted" or "reextracted"
    xtext,    \* extraction harness: the text given to the extractors
    xfirst,   \* extraction harness: what the extractors returned for xtext
    xsecond,  \* extraction harness: what they returned for the values of xfirst
    ipc,      \* intent-router graph: "run" while a superstep is under way, or how the run ended
    istate,   \* intent-router graph: AgentState as of the last completed superstep
    iresp,    \* intent-router graph: the routing model's response, once asked for
    itasks,   \* intent-router graph: the nodes of the current superstep that have yet to run
    iwrites,  \* intent-router graph: the updates returned so far in the current superstep
    itrace,   \* intent-router graph: history, one record per node executed
    rpc,      \* tool-calling graph: the node that runs next ("brain", "tools"), or how the run ended
    messages  \* tool-calling graph: GraphState["messages"]

vars == <<pc, state, resp, trace, xpc, xtext, xfirst, xsecond,
          ipc, istate, iresp, itasks, iwrites, itrace, rpc, messages>>
engineVars == <<pc, state, resp, trace>>
extractVars == <<xpc, xtext, xfirst, xsecond>>
intentVars == <<ipc, istate, iresp, itasks, iwrites, itrace>>
reactVars == <<rpc, messages>>

----------------------------------------------------------------------------
(* Bounds of the model *)

\* longest list the planning oracle returns as "plan"
MaxPlanLen == 4
\* longest free part of a text given to the extractors
MaxRestLen == 3
\* most tool calls in one response of the tool-calling model
MaxToolCalls == 2
\* most responses the tool-calling model gives in one run
MaxBrainTurns == 2

----------------------------------------------------------------------------
(* Characters *)

UpperLetters == <<"A","B","C","D","E","F","G","H","I","J","K","L","M","N","O","P","Q","R","S","T","U","V","W","X","Y","Z">>
LowerLetters == <<"a","b","c","d","e","f","g","h","i","j","k","l","m","n","o","p","q","r","s","t","u","v","w","x","y","z">>
DigitChars == {"0","1","2","3","4","5","6","7","8","9"}

Range(s) == {s[i] : i \in 1..Len(s)}

\* the lower-case letters and their upper-case forms
LowerSet == Range(LowerLetters)
UpperOf == [c \in LowerSet |-> UpperLetters[CHOOSE i \in 1..Len(LowerLetters) : LowerLetters[i] = c]]

\* str.upper() on one character
UpperChar(c) == IF c \in LowerSet THEN UpperOf[c] ELSE c

\* \w of the re module: letters, digits and the underscore
WordChars == Range(UpperLetters) \cup LowerSet \cup DigitChars \cup {"_"}
IsWordChar(c) == c \in WordChars

\* \b between text[i] and text[i+1] (i = 0: before the first character)
WordBoundary(text, i) ==
    LET before == i >= 1 /\ IsWordChar(text[i])
        after  == i < Len(text) /\ IsWordChar(text[i + 1])
    IN  before # after

----------------------------------------------------------------------------
(* WO_REGEX, PROD_REGEX:  \b<letters>[-_ ]?\d+\b  with re.IGNORECASE *)

\* the character class [-_ ] of both patterns
SepClassNoDash == {"_", " "}
SepClass == {"-", "_", " "}

WO_LETTERS == <<"W", "O">>
PROD_LETTERS == <<"P", "R", "O", "D">>

\* positions e >= from such that text[from..e] is a run of digits: what \d+ can consume
DigitRunEnds(text, from) ==
    {e \in from..Len(text) : \A k \in from..e : text[k] \in DigitChars}

\* \d+\b from position `from`: greedy, giving digits back until \b holds; 0 = no match
DigitsThenBoundary(text, from) ==
    LET ends == {e \in DigitRunEnds(text, from) : WordBoundary(text, e)}
    IN  IF ends = {} THEN 0 ELSE CHOOSE e \in ends : \A f \in ends : f <= e

\* the pattern anchored at position s: the position of the last character matched, 0 = no match
MatchAt(letters, text, s) ==
    LET n == Len(letters)
        p == s + n
    IN  IF ~ WordBoundary(text, s - 1) THEN 0
        ELSE IF s + n - 1 > Len(text) THEN 0
        ELSE IF \E j \in 1..n : UpperChar(text[s + j - 1]) # letters[j] THEN 0
        ELSE LET withSep == IF p <= Len(text) /\ text[p] \in SepClass
                            THEN DigitsThenBoundary(text, p + 1)
                            ELSE 0
             IN  IF withSep # 0 THEN withSep ELSE DigitsThenBoundary(text, p)

\* regex.search(text): the leftmost match, as m.group(0); matched = FALSE models None
NoMatch == [matched |-> FALSE, value |-> <<>>]

RECURSIVE SearchFrom(_, _, _)
\* the scan of regex.search: the first start position, from s on, where the pattern matches
SearchFrom(letters, text, s) ==
    IF s > Len(text) THEN NoMatch
    ELSE IF MatchAt(letters, text, s) # 0
         THEN [matched |-> TRUE, value |-> SubSeq(text, s, MatchAt(letters, text, s))]
         ELSE SearchFrom(letters, text, s + 1)

Search(letters, text) == SearchFrom(letters, text, 1)

WO_REGEX(text) == Search(WO_LETTERS, text)
PROD_REGEX(text) == Search(PROD_LETTERS, text)

----------------------------------------------------------------------------
(* m.group(0).replace(" ", "").replace("_", "-").upper() *)

RECURSIVE Replace(_, _, _)
\* str.replace(old, new) for a one-character old and a new of any length
Replace(s, old, new) ==
    IF s = <<>> THEN <<>>
    ELSE (IF Head(s) = old THEN new ELSE <<Head(s)>>) \o Replace(Tail(s), old, new)

Upper(s) == [i \in 1..Len(s) |-> UpperChar(s[i])]

Normalize(s) == Upper(Replace(Replace(s, " ", <<>>), "_", <<"-">>))

\* Optional[str]: matched = FALSE is None
extract_work_order_id(text) ==
    LET m == WO_REGEX(text)
    IN  IF m.matched THEN [matched |-> TRUE, value |-> Normalize(m.value)] ELSE NoMatch

extract_product_id(text) ==
    LET m == PROD_REGEX(text)
    IN  IF m.matched THEN [matched |-> TRUE, value |-> Normalize(m.value)] ELSE NoMatch

----------------------------------------------------------------------------
(* The extractors as a system of their own: a text is given, both extractors  *)
(* run on it, and then run again on the values they returned.                 *)

\* sequences over `alphabet` of length at most n
SeqsUpTo(alphabet, n) == UNION {[1..k -> alphabet] : k \in 0..n}

\* what precedes the identifier letters: nothing, a word character, a non-word one
Leads == {<<>>, <<"x">>, <<"-">>, <<"_">>}
\* the identifier letters in several cases
LetterSpellings ==
    { <<"W","O">>, <<"w","o">>, <<"W","o">>,
      <<"P","R","O","D">>, <<"p","r","o","d">>, <<"p","R","o","D">> }
\* the free part: the separators, digits and a letter
RestAlphabet == {"-", "_", " ", "1", "2", "x"}
\* what follows: nothing, or a second identifier of each kind
Tails == {<<>>, <<".","w","o","_","3"," ","P","R","O","D"," ","4">>}

ExtractTexts ==
    {lead \o letters \o rest \o tail :
        lead \in Leads, letters \in LetterSpellings,
        rest \in SeqsUpTo(RestAlphabet, MaxRestLen), tail \in Tails}

NoIds == [wo |-> NoMatch, prod |-> NoMatch]

\* the other two graphs, not invoked
IntentIdle ==
    /\ ipc = "idle"
    /\ istate = <<>>
    /\ iresp = <<>>
    /\ itasks = {}
    /\ iwrites = <<>>
    /\ itrace = <<>>

ReactIdle ==
    /\ rpc = "idle"
    /\ messages = <<>>

InitExtract ==
    /\ xpc = "input"
    /\ xtext \in ExtractTexts
    /\ xfirst = NoIds
    /\ xsecond = NoIds
    /\ pc = "idle"
    /\ state = <<>>
    /\ resp = <<>>
    /\ trace = <<>>
    /\ IntentIdle
    /\ ReactIdle

\* wo_id = extract_work_order_id(text); prod_id = extract_product_id(text)
Extract ==
    /\ xpc = "input"
    /\ xfirst' = [wo |-> extract_work_order_id(xtext), prod |-> extract_product_id(xtext)]
    /\ xpc' = "extracted"
    /\ UNCHANGED <<xtext, xsecond, engineVars, intentVars, reactVars>>

\* each extractor again, on the identifier it returned (None is not a text: left alone)
ReExtract ==
    /\ xpc = "extracted"
    /\ xfirst.wo.matched \/ xfirst.prod.matched
    /\ xsecond' =
         [wo   |-> IF xfirst.wo.matched THEN extract_work_order_id(xfirst.wo.value) ELSE NoMatch,
          prod |-> IF xfirst.prod.matched THEN extract_product_id(xfirst.prod.value) ELSE NoMatch]
    /\ xpc' = "reextracted"
    /\ UNCHANGED <<xtext, xfirst, engineVars, intentVars, reactVars>>

NextExtract == Extract \/ ReExtract

SpecExtract == InitExtract /\ [][NextExtract]_vars

----------------------------------------------------------------------------
(* Claims about identifier extraction (checked under SpecExtract) *)

\* C9: extraction is idempotent: extracting again from the normalized value an
\* extractor returned yields that same value, for the WO and the PROD pattern.
C9_ExtractIdempotent ==
    xpc = "reextracted" =>
        /\ xfirst.wo.matched => xsecond.wo = xfirst.wo
        /\ xfirst.prod.matched => xsecond.prod = xfirst.prod

\* C9 witness: both re-extractions ran, one of them on a value that normalisation
\* changed (a lower-case, underscore spelling)
C9_Witness ==
    /\ xpc = "reextracted"
    /\ xfirst.wo.matched /\ xfirst.prod.matched
    /\ xfirst.wo.value = <<"W","O","-","3">>
    /\ xsecond.wo.value = <<"W","O","-","3">>
    /\ xsecond.prod = xfirst.prod

\* the text is exactly letters, one separator of the class, digits
IsSpelling(letters, text) ==
    LET n == Len(letters)
    IN  /\ Len(text) >= n + 2
        /\ Upper(SubSeq(text, 1, n)) = letters
        /\ text[n + 1] \in {"-", "_", " "}
        /\ \A k \in (n + 2)..Len(text) : text[k] \in DigitChars

\* the canonical value the claim states for such a text: upper-case letters, one dash, the digits
DashForm(letters, text) == letters \o <<"-">> \o SubSeq(text, Len(letters) + 2, Len(text))

\* C10 (as stated): every spelling with a dash, an underscore or a space as separator
\* extracts to the upper-case value with a single dash, so "wo 12", "WO_12" and
\* "WO-12" extract to the same value.
C10_CanonicalDash ==
    xpc = "extracted" =>
        /\ IsSpelling(WO_LETTERS, xtext) =>
               xfirst.wo = [matched |-> TRUE, value |-> DashForm(WO_LETTERS, xtext)]
        /\ IsSpelling(PROD_LETTERS, xtext) =>
               xfirst.prod = [matched |-> TRUE, value |-> DashForm(PROD_LETTERS, xtext)]

----------------------------------------------------------------------------
(* The plan-queue orchestrator: types and values *)

AgentName == {"scheduling_agent", "service_insights_agent", "knowledge_agent", "final_answer"}
\* langgraph's END
END == "END"
\* a name in a plan that build_orchestrator_graph registers no node for
UnregisteredName == "unregistered_agent"

\* a variant in which a key already present keeps its value
MergeKeepExisting(st, update) == st @@ update

\* dict.update as the graph applies a node's return value: the returned keys overwrite
Merge(st, update) == update @@ st

\* `not state.get(key)` for a key that holds a str: absent (None) or empty
NotGet(st, key) == key \notin DOMAIN st \/ st[key] = <<>>

WO_100245 == <<"W","O","-","1","0","0","2","4","5">>
PROD_77881 == <<"P","R","O","D","-","7","7","8","8","1">>

\* the questions of main(), and one that spells both identifiers loosely
QuestionScheduled == <<"W","h","a","t"," ","w","o","r","k"," ","o","r","d","e","r"," ","i","s"," ","s","c","h","e","d","u","l","e","d"," ","t","o","d","a","y","?"," ","T","e","l","l"," ","m","e"," ","d","e","t","a","i","l","s"," ","a","n","d"," ","h","o","w"," ","t","o"," ","c","l","e","a","n"," ","i","t",".">>
QuestionWorkOrder == <<"P","r","o","v","i","d","e"," ","d","e","t","a","i","l","s"," ","o","f"," ","w","o","r","k"," ","o","r","d","e","r"," ","W","O","1">>
QuestionProduct == <<"H","o","w"," ","d","o"," ","I"," ","c","l","e","a","n"," ","p","r","o","d","u","c","t"," ","P","R","O","D","-","7","7","8","8","1","?">>
QuestionBoth == <<"c","l","e","a","n"," ","p","r","o","d","_","5"," ","o","f"," ","w","o"," ","1","2">>
Questions == {QuestionScheduled, QuestionWorkOrder, QuestionProduct, QuestionBoth}

\* what the composing model may answer (resp.content of final_answer_node)
Answers == {"answer_a", "answer_b"}

----------------------------------------------------------------------------
(* The planning oracle's response, resp.content, by what json.loads makes of it. *)
(* kind: the JSON value the text holds ("not_json": json.loads raises).           *)
(* plan: for an object, the value under "plan" (kind "absent": no such key);      *)
(* truthy is Python's truth value of a string, number or object.                  *)

PyList(items) == [kind |-> "list", truthy |-> items # <<>>, items |-> items]
PyOther(kind, truthy) == [kind |-> kind, truthy |-> truthy, items |-> <<>>]
PyAbsent == PyOther("absent", FALSE)

PlanLists == SeqsUpTo(AgentName \cup {UnregisteredName}, MaxPlanLen)

NonListPlans ==
    {PyAbsent, PyOther("null", FALSE)}
        \cup {PyOther(k, t) : k \in {"string", "number", "object"}, t \in BOOLEAN}

OracleResponses ==
    {[kind |-> k, plan |-> PyAbsent] :
        k \in {"not_json", "json_null", "json_number", "json_string", "json_list"}}
    \cup {[kind |-> "json_object", plan |-> v] : v \in NonListPlans}
    \cup {[kind |-> "json_object", plan |-> PyList(items)] : items \in PlanLists}

NoResp == [kind |-> "none", plan |-> PyAbsent]

----------------------------------------------------------------------------
(* planner_node *)

\* try: data = json.loads(resp.content); plan = data.get("plan", [])
\* except Exception: plan = ["final_answer"]
\* json.loads raises on text that is not JSON; .get raises AttributeError on a value
\* that is not a dict; both are caught.
ParsePlan(r) ==
    IF r.kind # "json_object" THEN PyList(<<"final_answer">>)
    ELSE IF r.plan.kind = "absent" THEN PyList(<<>>)
    ELSE r.plan

Raised == [raised |-> TRUE, plan |-> <<>>]
Returned(items) == [raised |-> FALSE, plan |-> items]

\* bool(plan)
Truthy(v) == IF v.kind = "list" THEN v.items # <<>> ELSE v.truthy

\* a variant that appends only to a non-empty plan
EnsureFinalLastNonEmptyOnly(v) ==
    IF v.kind # "list" THEN Raised
    ELSE IF v.items # <<>> /\ v.items[Len(v.items)] # "final_answer"
         THEN Returned(Append(v.items, "final_answer"))
         ELSE Returned(v.items)

\* if not plan or plan[-1] != "final_answer": plan.append("final_answer")
\*   plan[-1]: TypeError on a number, KeyError on an object, the last character of a
\*   string (never "final_answer"); .append: AttributeError on anything but a list.
EnsureFinalLast(v) ==
    IF Truthy(v) /\ v.kind \in {"number", "object"} THEN Raised
    ELSE LET differs == \/ ~ Truthy(v)
                        \/ v.kind = "string"
                        \/ v.kind = "list" /\ v.items[Len(v.items)] # "final_answer"
         IN  IF ~ differs THEN Returned(v.items)
             ELSE IF v.kind = "list" THEN Returned(Append(v.items, "final_answer"))
             ELSE Raised

\* wo_id = extract_work_order_id(user_q); prod_id = extract_product_id(user_q),
\* tabulated over the questions of the model
QuestionIds ==
    [q \in Questions |-> [wo |-> extract_work_order_id(q), prod |-> extract_product_id(q)]]

\* a variant that never seeds the identifiers
PlannerUpdateNoSeed(plan, user_q) == [plan |-> plan]

\* update = {"plan": plan}; if wo_id: update["work_order_id"] = wo_id;
\* if prod_id: update["product_id"] = prod_id
PlannerUpdate(plan, user_q) ==
    LET wo_id   == QuestionIds[user_q].wo
        prod_id == QuestionIds[user_q].prod
        wo      == IF wo_id.matched /\ wo_id.value # <<>>
                   THEN [work_order_id |-> wo_id.value] ELSE <<>>
        prod    == IF prod_id.matched /\ prod_id.value # <<>>
                   THEN [product_id |-> prod_id.value] ELSE <<>>
    IN  prod @@ wo @@ [plan |-> plan]

\* the node: raised = an exception leaves the node, else the update it returns
planner_node(st, r) ==
    LET ensured == EnsureFinalLast(ParsePlan(r))
    IN  IF ensured.raised THEN [raised |-> TRUE, update |-> <<>>]
        ELSE [raised |-> FALSE, update |-> PlannerUpdate(ensured.plan, st.user_question)]

----------------------------------------------------------------------------
(* Specialist nodes and the final answer node: the update each returns *)

\* a variant that also rewrites the plan, jumping to the final answer
scheduling_agent_node_Replans(st) ==
    [scheduling_result |->
        [agent |-> "scheduling_agent", date |-> "today",
         technician_id |-> "TECH-42", work_order_id |-> WO_100245,
         scheduled_time |-> "10:00 AM", site |-> "Acme Plant - San Jose"],
     work_order_id |-> WO_100245,
     plan |-> <<"scheduling_agent", "final_answer">>]

scheduling_agent_node(st) ==
    LET result == [agent |-> "scheduling_agent", date |-> "today",
                   technician_id |-> "TECH-42", work_order_id |-> WO_100245,
                   scheduled_time |-> "10:00 AM", site |-> "Acme Plant - San Jose"]
    IN  [scheduling_result |-> result, work_order_id |-> result.work_order_id]

\* a variant that forgets to publish product_id
service_insights_agent_node_NoProduct(st) ==
    IF NotGet(st, "work_order_id")
    THEN [service_insights_result |->
            [agent |-> "service_insights_agent", error |-> "Missing work_order_id"]]
    ELSE [service_insights_result |->
            [agent |-> "service_insights_agent", work_order_id |-> st.work_order_id,
             work_order_type |-> "Critical", product_id |-> PROD_77881,
             symptom_summary |-> "Oil leakage near primary valve",
             last_actions |-> <<"2025-12-02: Replaced seal kit",
                                "2025-10-18: Inspection and lubrication">>,
             priority |-> "High"]]

service_insights_agent_node(st) ==
    IF NotGet(st, "work_order_id")
    THEN [service_insights_result |->
            [agent |-> "service_insights_agent", error |-> "Missing work_order_id"]]
    ELSE LET result == [agent |-> "service_insights_agent",
                        work_order_id |-> st.work_order_id,
                        work_order_type |-> "Critical", product_id |-> PROD_77881,
                        symptom_summary |-> "Oil leakage near primary valve",
                        last_actions |-> <<"2025-12-02: Replaced seal kit",
                                           "2025-10-18: Inspection and lubrication">>,
                        priority |-> "High"]
         IN  [service_insights_result |-> result, product_id |-> result.product_id]

CleanupSteps ==
    << "Power down and lockout/tagout before cleaning.",
       "Wipe exterior surfaces using a non-abrasive cloth.",
       "Use approved degreaser on oil residue near the valve housing.",
       "Inspect seals and fittings after cleaning for leak recurrence.",
       "Run a short test cycle and confirm pressure stability." >>

KnowledgeFound(product_id) ==
    [knowledge_result |->
        [agent |-> "knowledge_agent", product_id |-> product_id,
         doc_title |-> "Cleaning & Maintenance Guide - Hydraulic Press Series",
         cleanup_steps |-> CleanupSteps, source |-> "KnowledgeBase"]]

KnowledgeMissing ==
    [knowledge_result |-> [agent |-> "knowledge_agent", error |-> "Missing product_id"]]

\* a variant that tests the wrong identifier
knowledge_agent_node_WrongKey(st) ==
    IF NotGet(st, "work_order_id") THEN KnowledgeMissing
    ELSE KnowledgeFound(IF "product_id" \in DOMAIN st THEN st.product_id ELSE <<>>)

\* a variant whose fallback carries no error marker
knowledge_agent_node_NoMarker(st) ==
    IF NotGet(st, "product_id")
    THEN [knowledge_result |-> [agent |-> "knowledge_agent"]]
    ELSE KnowledgeFound(st.product_id)

knowledge_agent_node(st) ==
    IF NotGet(st, "product_id") THEN KnowledgeMissing ELSE KnowledgeFound(st.product_id)

\* resp = model.invoke(prompt); return {"final_answer": resp.content}
final_answer_node(st, content) == [final_answer |-> content]

----------------------------------------------------------------------------
(* Loop control and the graph *)

\* a variant that passes over a head step whose identifier is missing
next_step_router_SkipUnsatisfied(st) ==
    LET plan == IF "plan" \in DOMAIN st THEN st.plan ELSE <<>>
        unsatisfied ==
            \/ plan[1] = "service_insights_agent" /\ NotGet(st, "work_order_id")
            \/ plan[1] = "knowledge_agent" /\ NotGet(st, "product_id")
    IN  IF plan = <<>> THEN END
        ELSE IF Len(plan) > 1 /\ unsatisfied THEN plan[2]
        ELSE plan[1]

next_step_router(st) ==
    LET plan == IF "plan" \in DOMAIN st THEN st.plan ELSE <<>>
    IN  IF plan = <<>> THEN END ELSE plan[1]

\* a variant that returns the plan as it is
pop_step_node_NoPop(st) ==
    [plan |-> IF "plan" \in DOMAIN st THEN st.plan ELSE <<>>]

pop_step_node(st) ==
    LET plan == IF "plan" \in DOMAIN st THEN st.plan ELSE <<>>
    IN  [plan |-> IF plan # <<>> THEN Tail(plan) ELSE plan]

\* the path map of both add_conditional_edges calls
PathMap == [n \in AgentName \cup {END} |-> n]

\* a variant that passes over a name the path map does not hold
ConditionalEdge_SkipUnknown(st) ==
    LET r == next_step_router(st)
    IN  IF r \in DOMAIN PathMap THEN PathMap[r] ELSE "pop_step"

\* the conditional edge after "planner" and after "pop_step": the router's value is
\* looked up in the path map; a value that is no key of it raises
ConditionalEdge(st) ==
    LET r == next_step_router(st)
    IN  IF r \in DOMAIN PathMap THEN PathMap[r] ELSE "raised"

\* the state a node reads, less the question text (set by the caller, written by no node)
Blackboard(st) == [k \in DOMAIN st \ {"user_question"} |-> st[k]]

Ran(node, update) ==
    Append(trace, [node |-> node, input |-> Blackboard(state), update |-> update])

\* app.invoke({"user_question": q})
Init ==
    /\ pc = "planner"
    /\ \E q \in Questions : state = [user_question |-> q]
    /\ resp = NoResp
    /\ trace = <<>>
    /\ xpc = "idle"
    /\ xtext = <<>>
    /\ xfirst = NoIds
    /\ xsecond = NoIds
    /\ IntentIdle
    /\ ReactIdle

Planner ==
    /\ pc = "planner"
    /\ \E r \in OracleResponses :
         LET out == planner_node(state, r)
         IN  /\ resp' = r
             /\ IF out.raised
                THEN /\ pc' = "raised"
                     /\ UNCHANGED <<state, trace>>
                ELSE /\ state' = Merge(state, out.update)
                     /\ trace' = Ran("planner", out.update)
                     /\ pc' = ConditionalEdge(Merge(state, out.update))
    /\ UNCHANGED <<extractVars, intentVars, reactVars>>

\* each step node is followed by the edge to "pop_step" (add_edge(step, "pop_step"))
SchedulingAgent ==
    /\ pc = "scheduling_agent"
    /\ state' = Merge(state, scheduling_agent_node(state))
    /\ trace' = Ran("scheduling_agent", scheduling_agent_node(state))
    /\ pc' = "pop_step"
    /\ UNCHANGED <<resp, extractVars, intentVars, reactVars>>

ServiceInsightsAgent ==
    /\ pc = "service_insights_agent"
    /\ state' = Merge(state, service_insights_agent_node(state))
    /\ trace' = Ran("service_insights_agent", service_insights_agent_node(state))
    /\ pc' = "pop_step"
    /\ UNCHANGED <<resp, extractVars, intentVars, reactVars>>

KnowledgeAgent ==
    /\ pc = "knowledge_agent"
    /\ state' = Merge(state, knowledge_agent_node(state))
    /\ trace' = Ran("knowledge_agent", knowledge_agent_node(state))
    /\ pc' = "pop_step"
    /\ UNCHANGED <<resp, extractVars, intentVars, reactVars>>

FinalAnswer ==
    /\ pc = "final_answer"
    /\ \E content \in Answers :
         /\ state' = Merge(state, final_answer_node(state, content))
         /\ trace' = Ran("final_answer", final_answer_node(state, content))
    /\ pc' = "pop_step"
    /\ UNCHANGED <<resp, extractVars, intentVars, reactVars>>

PopStep ==
    /\ pc = "pop_step"
    /\ LET update == pop_step_node(state)
       IN  /\ state' = Merge(state, update)
           /\ trace' = Ran("pop_step", update)
           /\ pc' = ConditionalEdge(Merge(state, update))
    /\ UNCHANGED <<resp, extractVars, intentVars, reactVars>>

Next ==
    \/ Planner
    \/ SchedulingAgent
    \/ ServiceInsightsAgent
    \/ KnowledgeAgent
    \/ FinalAnswer
    \/ PopStep

Spec == Init /\ [][Next]_vars

\* once the planner has returned, the graph runs the next node as long as there is one
LoopStep == SchedulingAgent \/ ServiceInsightsAgent \/ KnowledgeAgent \/ FinalAnswer \/ PopStep

FairSpec == Spec /\ WF_vars(LoopStep)

----------------------------------------------------------------------------
(* Vocabulary of the claims about the plan-queue orchestrator *)

IsAgentName(n) == n \in AgentName

\* the step nodes executed so far, in order
Executed == SelectSeq([i \in 1..Len(trace) |-> trace[i].node], IsAgentName)

Count(seq, x) == Cardinality({i \in 1..Len(seq) : seq[i] = x})

\* the oracle returned an object whose "plan" is a list
OracleList == resp.kind = "json_object" /\ resp.plan.kind = "list"
\* ... over the four registered step names
OracleListRegistered == OracleList /\ Range(resp.plan.items) \subseteq AgentName

PlannerRan == trace # <<>> /\ trace[1].node = "planner"
\* what the planner returned: the normalized plan and the seeded identifiers
PlannerOutput == trace[1].update
InPlan(n) == n \in Range(PlannerOutput.plan)

Specialists == {"scheduling_agent", "service_insights_agent", "knowledge_agent"}
Consumers == {"service_insights_agent", "knowledge_agent"}
RequiredKey(node) == IF node = "service_insights_agent" THEN "work_order_id" ELSE "product_id"
ResultKey(node) ==
    CASE node = "scheduling_agent" -> "scheduling_result"
      [] node = "service_insights_agent" -> "service_insights_result"
      [] node = "knowledge_agent" -> "knowledge_result"

\* the dict holds the node's result and the result carries the error marker
HasMarker(st, node) == ResultKey(node) \in DOMAIN st /\ "error" \in DOMAIN st[ResultKey(node)]
\* the dict holds the node's result, without an error marker
HasCleanResult(st, node) == ResultKey(node) \in DOMAIN st /\ "error" \notin DOMAIN st[ResultKey(node)]

\* the i-th node executed is a consumer step that found its identifier absent
MissingRun(i) ==
    trace[i].node \in Consumers /\ RequiredKey(trace[i].node) \notin DOMAIN trace[i].input

\* the last run of final_answer
LastFinal ==
    CHOOSE i \in 1..Len(trace) :
        trace[i].node = "final_answer" /\ \A j \in (i + 1)..Len(trace) : trace[j].node # "final_answer"

----------------------------------------------------------------------------
(* Claims about the plan-queue orchestrator *)

\* C1: for every plan over the four registered step names (the empty one included) the
\* run terminates: a step node leaves the plan alone and is followed by pop_step, each
\* pop_step shortens the plan by exactly one element, the router ends the run exactly
\* when the plan is empty, and the run reaches END.  (Checked under FairSpec.)
C1_PlanRunTerminates ==
    /\ [][/\ pc \in AgentName => pc' = "pop_step" /\ state'.plan = state.plan
          /\ pc = "pop_step" => /\ Len(state'.plan) = Len(state.plan) - 1
                                /\ (pc' = END) <=> (state'.plan = <<>>)]_vars
    /\ [](OracleListRegistered => <>(pc = END))

\* C1 witness: a run over a three-step registered plan has ended after four steps
C1_Witness ==
    /\ pc = END
    /\ OracleListRegistered
    /\ Len(resp.plan.items) = 3
    /\ Len(Executed) = 4
    /\ state.plan = <<>>

\* C2 (as stated): for every plan over the registered names, when the run has ended
\* final_answer was the last step executed and was executed exactly once.
C2_TerminalOnceAndLast ==
    (pc = END /\ OracleListRegistered) =>
        /\ Executed # <<>>
        /\ Executed[Len(Executed)] = "final_answer"
        /\ Count(Executed, "final_answer") = 1

\* the oracle returned text that is not JSON, or an empty plan
EmptyOrUnparseable ==
    resp.kind = "not_json" \/ (OracleList /\ resp.plan.items = <<>>)

\* C3: on an empty plan or unparseable text the run does not raise; the planner
\* produces [final_answer], final_answer runs, and the run ends with final_answer
\* written to the state.
C3_FallbackPlanRuns ==
    EmptyOrUnparseable =>
        /\ pc # "raised"
        /\ PlannerRan
        /\ PlannerOutput.plan = <<"final_answer">>
        /\ Len(trace) <= 3
        /\ Len(trace) = 1 => pc = "final_answer"
        /\ Len(trace) = 2 =>
             pc = "pop_step" /\ trace[2].node = "final_answer" /\ state.final_answer \in Answers
        /\ Len(trace) = 3 =>
             pc = END /\ Executed = <<"final_answer">> /\ state.final_answer \in Answers

\* C3 witness: the run on an empty plan has ended with a final answer
C3_Witness ==
    /\ pc = END
    /\ OracleList /\ resp.plan.items = <<>>
    /\ state.final_answer \in Answers

\* the shapes of malformed output the claim names
Malformed ==
    \/ resp.kind \in {"not_json", "json_null", "json_number", "json_string", "json_list"}
    \/ resp.kind = "json_object" /\ resp.plan.kind # "list"

\* C4 (as stated): on every shape of malformed oracle output the planner does not
\* crash and yields a plan whose last element is final_answer.
C4_MalformedNeverCrashes ==
    Malformed =>
        /\ pc # "raised"
        /\ PlannerRan
        /\ PlannerOutput.plan # <<>>
        /\ PlannerOutput.plan[Len(PlannerOutput.plan)] = "final_answer"

\* C5: a consumer step that finds its required key in the state it reads never returns
\* the missing-dependency marker.
C5_NoMarkerWhenKeyPresent ==
    \A i \in 1..Len(trace) :
        (trace[i].node \in Consumers /\ RequiredKey(trace[i].node) \in DOMAIN trace[i].input)
            => HasCleanResult(trace[i].update, trace[i].node)

\* C5 witness: knowledge_agent ran on a product id seeded from the question (no work
\* order id anywhere) and returned cleanup steps
C5_Witness ==
    \E i \in 1..Len(trace) :
        /\ trace[i].node = "knowledge_agent"
        /\ "product_id" \in DOMAIN trace[i].input
        /\ "work_order_id" \notin DOMAIN trace[i].input
        /\ trace[i].update.knowledge_result.product_id = trace[i].input.product_id
        /\ trace[i].update.knowledge_result.cleanup_steps = CleanupSteps

\* what C6 says of the step itself: it returns only its result, with the marker, and the
\* run goes on to pop_step
MarkerWrittenRunGoesOn(i) ==
    /\ DOMAIN trace[i].update = {ResultKey(trace[i].node)}
    /\ HasMarker(trace[i].update, trace[i].node)
    /\ IF i = Len(trace) THEN pc = "pop_step" ELSE trace[i + 1].node = "pop_step"
    /\ (pc = END /\ OracleListRegistered) => Executed = PlannerOutput.plan

\* C6 (as stated): whenever a consumer step runs with its identifier absent, it writes
\* the marker, the run goes on, the remaining plan executes, and the marker is in the
\* state the terminal step reads.
C6_MarkerReachesTerminalStep ==
    \A i \in 1..Len(trace) :
        MissingRun(i) =>
            /\ MarkerWrittenRunGoesOn(i)
            /\ pc = END => HasMarker(trace[LastFinal].input, trace[i].node)

\* C6 (amended): ... and the marker is in the state every later node reads, the
\* terminal step included, unless the same step ran again in between with its
\* identifier present (its result then replaces the marker).
C6_MarkerStaysUntilStepSucceeds ==
    \A i \in 1..Len(trace) :
        MissingRun(i) =>
            /\ MarkerWrittenRunGoesOn(i)
            /\ \A j \in (i + 1)..Len(trace) :
                 (\A k \in (i + 1)..(j - 1) : trace[k].node = trace[i].node => MissingRun(k))
                     => HasMarker(trace[j].input, trace[i].node)

\* C6 witness: knowledge_agent ran without a product id, the run ended, and the
\* terminal step read the marker
C6_Witness ==
    /\ pc = END
    /\ \E i \in 1..Len(trace) :
         /\ trace[i].node = "knowledge_agent"
         /\ MissingRun(i)
         /\ i < LastFinal
         /\ trace[LastFinal].input.knowledge_result.error = "Missing product_id"

ScenarioAPlan == <<"scheduling_agent", "service_insights_agent", "knowledge_agent", "final_answer">>

\* C7: with no seeded identifiers and the plan [scheduling_agent, service_insights_agent,
\* knowledge_agent, final_answer] the run ends with work_order_id, product_id and the
\* cleanup steps populated, no result carrying an error marker, each step having
\* consumed the identifier written by the step before it.
C7_ScenarioAChain ==
    ( /\ pc = END
      /\ PlannerOutput.plan = ScenarioAPlan
      /\ DOMAIN PlannerOutput = {"plan"} ) =>
        /\ "work_order_id" \in DOMAIN state /\ state.work_order_id = WO_100245
        /\ "product_id" \in DOMAIN state /\ state.product_id = PROD_77881
        /\ \A n \in Specialists : HasCleanResult(state, n)
        /\ state.knowledge_result.cleanup_steps = CleanupSteps
        /\ state.service_insights_result.work_order_id = state.scheduling_result.work_order_id
        /\ state.knowledge_result.product_id = state.service_insights_result.product_id

\* C7 witness: the run of main()'s first question on the oracle's four-step plan has ended
C7_Witness ==
    /\ pc = END
    /\ state.user_question = QuestionScheduled
    /\ OracleList /\ resp.plan.items = ScenarioAPlan
    /\ state.knowledge_result.product_id = PROD_77881

\* C8: an identifier seeded from the question lets its consumer run successfully
\* without the producer in the plan, and the result key of every step that is not in
\* the plan is absent from the final state (no work order id either, when none was
\* seeded and scheduling_agent is not in the plan).
C8_SeededConsumerAndFrame ==
    pc = END =>
        LET seeded == QuestionIds[state.user_question]
        IN  /\ \A n \in Specialists : ~ InPlan(n) => ResultKey(n) \notin DOMAIN state
            /\ ( /\ seeded.wo.matched
                 /\ ~ InPlan("scheduling_agent")
                 /\ InPlan("service_insights_agent") ) =>
                   /\ HasCleanResult(state, "service_insights_agent")
                   /\ state.service_insights_result.work_order_id = seeded.wo.value
            /\ ( /\ seeded.prod.matched
                 /\ ~ InPlan("service_insights_agent")
                 /\ InPlan("knowledge_agent") ) =>
                   /\ HasCleanResult(state, "knowledge_agent")
                   /\ state.knowledge_result.product_id = seeded.prod.value
            /\ (~ seeded.wo.matched /\ ~ InPlan("scheduling_agent")) =>
                   "work_order_id" \notin DOMAIN state

\* C8 witness: "Provide details of work order WO1" on the plan [service_insights_agent,
\* final_answer] ended with a result for WO1 and no scheduling or knowledge result
C8_Witness ==
    /\ pc = END
    /\ state.user_question = QuestionWorkOrder
    /\ PlannerOutput.plan = <<"service_insights_agent", "final_answer">>
    /\ state.service_insights_result.work_order_id = <<"W","O","1">>
    /\ "scheduling_result" \notin DOMAIN state
    /\ "knowledge_result" \notin DOMAIN state

\* C11 (as stated): once final_answer has run and been popped the run has ended, and
\* no step is executed after final_answer, whatever the plan still holds.
C11_NothingAfterTerminalStep ==
    \A i \in 1..Len(trace) :
        trace[i].node = "final_answer" =>
            /\ \A j \in (i + 1)..Len(trace) : trace[j].node \notin AgentName
            /\ Len(trace) > i => pc = END

\* C12 (as stated): for every list over the registered names the oracle returns, the
\* plan the planner writes holds final_answer exactly once, as its last element.
C12_ExactlyOneTerminalLast ==
    (PlannerRan /\ OracleListRegistered) =>
        /\ PlannerOutput.plan # <<>>
        /\ PlannerOutput.plan[Len(PlannerOutput.plan)] = "final_answer"
        /\ Count(PlannerOutput.plan, "final_answer") = 1

IsPrefix(a, b) == Len(a) <= Len(b) /\ a = SubSeq(b, 1, Len(a))
IsSuffix(a, b) == Len(a) <= Len(b) /\ a = SubSeq(b, Len(b) - Len(a) + 1, Len(b))

\* C13: the steps executed are the normalized plan in its order: at every moment the
\* steps executed so far are a prefix of it, the step about to run is the next element,
\* a consumer step whose identifier is missing is invoked all the same, and a run that
\* has ended executed exactly the plan.
C13_ExecutedIsPlanInOrder ==
    PlannerRan =>
        /\ IsPrefix(Executed, PlannerOutput.plan)
        /\ pc \in AgentName =>
             /\ Len(Executed) < Len(PlannerOutput.plan)
             /\ pc = PlannerOutput.plan[Len(Executed) + 1]
        /\ pc = END => Executed = PlannerOutput.plan

\* C13 witness: knowledge_agent was first in the plan, ran without a product id, and the
\* run went through the whole plan, the producer after the consumer
C13_Witness ==
    /\ pc = END
    /\ PlannerOutput.plan = <<"knowledge_agent", "service_insights_agent", "scheduling_agent", "final_answer">>
    /\ Executed = PlannerOutput.plan
    /\ MissingRun(2)
    /\ MissingRun(4)

\* the number of times pop_step has run
Pops == Cardinality({i \in 1..Len(trace) : trace[i].node = "pop_step"})

\* C14: after the planner the plan in the state is a suffix of the normalized plan (the
\* plan less one head element per pop_step); pop_step removes the head and nothing
\* else, and no step node changes the plan.
C14_PlanOnlyPopped ==
    /\ [](PlannerRan =>
            /\ IsSuffix(state.plan, PlannerOutput.plan)
            /\ Len(state.plan) = Len(PlannerOutput.plan) - Pops)
    /\ [][/\ pc \in AgentName => state'.plan = state.plan
          /\ pc = "pop_step" => state'.plan = Tail(state.plan)]_vars

\* C14 witness: two of the four steps of a plan have been executed and popped
C14_Witness ==
    /\ PlannerRan
    /\ Len(PlannerOutput.plan) = 4
    /\ Pops = 2
    /\ state.plan = SubSeq(PlannerOutput.plan, 3, 4)
    /\ state.plan # PlannerOutput.plan

\* every node reads the state with the update of the node before it merged in
ReadsMergedState ==
    \A i \in 2..Len(trace) : trace[i].input = Merge(trace[i - 1].input, trace[i - 1].update)

\* C15 (as stated): each node starts on the state into which the previous node's output
\* has been merged; whenever final_answer is invoked the state it reads holds the result
\* of every specialist step of the plan, and no specialist step runs after it.
C15_ComposerReadsEveryResult ==
    /\ ReadsMergedState
    /\ \A i \in 1..Len(trace) :
         trace[i].node = "final_answer" =>
            /\ \A n \in Specialists : InPlan(n) => ResultKey(n) \in DOMAIN trace[i].input
            /\ \A j \in (i + 1)..Len(trace) : trace[j].node \notin Specialists

HasUnregistered == PlannerRan /\ UnregisteredName \in Range(PlannerOutput.plan)
\* the position of the first unregistered name of the normalized plan
FirstUnregistered ==
    CHOOSE k \in 1..Len(PlannerOutput.plan) :
        /\ PlannerOutput.plan[k] = UnregisteredName
        /\ \A j \in 1..(k - 1) : PlannerOutput.plan[j] # UnregisteredName

\* C16: with an unregistered name in the plan the run never reaches END; the steps
\* before the name run in order, the dispatch of the name raises (as soon as the name
\* is the head of the plan), and no step after it, final_answer included, is executed.
C16_UnregisteredNameIsFatal ==
    HasUnregistered =>
        LET k == FirstUnregistered
            before == SubSeq(PlannerOutput.plan, 1, k - 1)
        IN  /\ pc # END
            /\ IsPrefix(Executed, before)
            /\ (pc = "raised") <=> (state.plan # <<>> /\ state.plan[1] = UnregisteredName)
            /\ pc = "raised" =>
                 /\ Executed = before
                 /\ state.plan = SubSeq(PlannerOutput.plan, k, Len(PlannerOutput.plan))

\* C16 witness: scheduling_agent ran, then the dispatch of the unregistered name raised
\* with final_answer still in the plan
C16_Witness ==
    /\ pc = "raised"
    /\ PlannerRan
    /\ Executed = <<"scheduling_agent">>
    /\ state.plan = <<UnregisteredName, "final_answer">>
    /\ "final_answer" \notin DOMAIN state

\* the state the node after the i-th reads (the current state after the last)
StateAfter(i) == IF i = Len(trace) THEN Blackboard(state) ELSE trace[i + 1].input

\* C17: after a node every key it returned holds the value it returned, whatever was
\* there; service_insights_agent after scheduling_agent works on the scheduled work
\* order, and knowledge_agent after a successful service_insights_agent on its product,
\* also when the question seeded other identifiers.
C17_LastWriterWins ==
    \A i \in 1..Len(trace) :
        /\ \A k \in DOMAIN trace[i].update :
             k \in DOMAIN StateAfter(i) /\ StateAfter(i)[k] = trace[i].update[k]
        /\ ( /\ trace[i].node = "service_insights_agent"
             /\ \E j \in 1..(i - 1) : trace[j].node = "scheduling_agent" ) =>
               /\ HasCleanResult(trace[i].update, "service_insights_agent")
               /\ trace[i].update.service_insights_result.work_order_id = WO_100245
        /\ ( /\ trace[i].node = "knowledge_agent"
             /\ \E j \in 1..(i - 1) :
                  /\ trace[j].node = "service_insights_agent"
                  /\ HasCleanResult(trace[j].update, "service_insights_agent") ) =>
               /\ HasCleanResult(trace[i].update, "knowledge_agent")
               /\ trace[i].update.knowledge_result.product_id = PROD_77881

\* C17 witness: the question seeded WO12 and PROD-5; after scheduling_agent and
\* service_insights_agent the state and the consumers hold WO-100245 and PROD-77881
C17_Witness ==
    /\ pc = END
    /\ DOMAIN PlannerOutput = {"plan", "work_order_id", "product_id"}
    /\ PlannerOutput.work_order_id = <<"W","O","1","2">>
    /\ PlannerOutput.product_id = <<"P","R","O","D","-","5">>
    /\ PlannerOutput.plan = ScenarioAPlan
    /\ state.work_order_id = WO_100245
    /\ state.product_id = PROD_77881
    /\ state.service_insights_result.work_order_id = WO_100245
    /\ state.knowledge_result.product_id = PROD_77881

----------------------------------------------------------------------------
(* The intent-router graph of lg-multi-agent.py: values *)

\* the Literal type Intent
Intent == {"schedule_flow", "insights_only", "knowledge_only", "unknown"}
\* a string the routing model may return that is no Intent
OtherIntent == "other_intent"
\* Python's None as the value of "intent"
PyNone == "<None>"

WO_1 == <<"W","O","1">>
PROD_5 == <<"P","R","O","D","-","5">>

\* the value a JSON object holds under a key: no such key, null, or a string
JAbsentIntent == [kind |-> "absent", value |-> ""]
JNullIntent == [kind |-> "null", value |-> ""]
JIntent(v) == [kind |-> "string", value |-> v]
JAbsentId == [kind |-> "absent", value |-> <<>>]
JNullId == [kind |-> "null", value |-> <<>>]
JId(v) == [kind |-> "string", value |-> v]

IntentJson == {JAbsentIntent, JNullIntent} \cup {JIntent(v) : v \in Intent \cup {OtherIntent}}
WorkOrderJson == {JAbsentId, JNullId, JId(<<>>), JId(WO_1)}
ProductJson == {JAbsentId, JNullId, JId(<<>>), JId(PROD_5)}

\* resp.content of the routing model, by what json.loads makes of it: text that is not
\* JSON, a JSON value that is no object, or an object
RouterResponses ==
    {[kind |-> k, intent |-> JAbsentIntent, work_order_id |-> JAbsentId, product_id |-> JAbsentId] :
        k \in {"not_json", "json_other"}}
    \cup {[kind |-> "json_object", intent |-> i, work_order_id |-> w, product_id |-> p] :
            i \in IntentJson, w \in WorkOrderJson, p \in ProductJson}

NoRouterResp ==
    [kind |-> "none", intent |-> JAbsentIntent, work_order_id |-> JAbsentId, product_id |-> JAbsentId]

\* the questions app.invoke is given
IntentQuestions == {QuestionWorkOrder, QuestionProduct}

----------------------------------------------------------------------------
(* The nodes of the intent-router graph: the update each returns *)

\* data = {"intent": "unknown", "work_order_id": None, "product_id": None}
RouterFallback ==
    [kind |-> "json_object", intent |-> JIntent("unknown"),
     work_order_id |-> JNullId, product_id |-> JNullId]

\* a variant whose fallback is the schedule flow
llm_router_node_FallbackSchedule(st, r) ==
    IF r.kind = "json_other" THEN [raised |-> TRUE, update |-> <<>>]
    ELSE LET data == IF r.kind = "not_json"
                     THEN [RouterFallback EXCEPT !.intent = JIntent("schedule_flow")]
                     ELSE r
             intent == IF data.intent.kind = "absent" THEN "unknown"
                       ELSE IF data.intent.kind = "null" THEN PyNone
                       ELSE data.intent.value
             wo   == IF data.work_order_id.value # <<>>
                     THEN [work_order_id |-> data.work_order_id.value] ELSE <<>>
             prod == IF data.product_id.value # <<>>
                     THEN [product_id |-> data.product_id.value] ELSE <<>>
         IN  [raised |-> FALSE, update |-> prod @@ wo @@ [intent |-> intent]]

\* try: data = json.loads(resp.content) / except Exception: data = {fallback};
\* intent = data.get("intent", "unknown"); the ids are written only when truthy.
\* data.get is outside the try: on a JSON value that is no object it raises.
llm_router_node(st, r) ==
    IF r.kind = "json_other" THEN [raised |-> TRUE, update |-> <<>>]
    ELSE LET data == IF r.kind = "not_json" THEN RouterFallback ELSE r
             intent == IF data.intent.kind = "absent" THEN "unknown"
                       ELSE IF data.intent.kind = "null" THEN PyNone
                       ELSE data.intent.value
             wo   == IF data.work_order_id.value # <<>>
                     THEN [work_order_id |-> data.work_order_id.value] ELSE <<>>
             prod == IF data.product_id.value # <<>>
                     THEN [product_id |-> data.product_id.value] ELSE <<>>
         IN  [raised |-> FALSE, update |-> prod @@ wo @@ [intent |-> intent]]

\* scheduling_service returns "work_order_id=WO-100245"; out.split("=")[1].strip()
scheduling_node(st) == [work_order_id |-> WO_100245]

\* service_insights_service returns "work_order_type=Critical,product_id=PROD-77881 for <id>"
service_insights_node(st) ==
    IF NotGet(st, "work_order_id")
    THEN [work_order_type |-> "Unknown", product_id |-> <<>>]
    ELSE [work_order_type |-> "Critical", product_id |-> PROD_77881]

\* knowledge_access_service returns f"cleanup steps for {product_id}"
knowledge_access_node(st) ==
    IF NotGet(st, "product_id")
    THEN [cleanup_steps |->
            [text |-> "No product_id available to fetch cleanup steps.", product_id |-> <<>>]]
    ELSE [cleanup_steps |-> [text |-> "cleanup steps for", product_id |-> st.product_id]]

\* final_answer_node of lg-multi-agent.py: return {"final_answer": resp.content}
intent_final_answer_node(st, content) == [final_answer |-> content]

route_from_intent(st) == st.intent

----------------------------------------------------------------------------
(* build_graph of lg-multi-agent.py, run in supersteps: the nodes triggered together *)
(* read the same state; their updates are applied when all of them have returned,   *)
(* and every edge that leaves a node that ran triggers its target.                  *)

\* the path map of add_conditional_edges("router", route_from_intent, {...})
IntentPathMap ==
    [i \in Intent |->
        CASE i = "schedule_flow" -> "scheduling"
          [] i = "insights_only" -> "service_insights"
          [] i = "knowledge_only" -> "knowledge_access"
          [] i = "unknown" -> "final_answer"]

\* the add_edge calls (the edge knowledge_access -> final_answer is added twice)
IntentEdges ==
    { <<"scheduling", "service_insights">>,
      <<"service_insights", "knowledge_access">>,
      <<"knowledge_access", "final_answer">>,
      <<"service_insights", "final_answer">>,
      <<"final_answer", END>> }

\* the conditional edge after "router": a value that is no key of the path map raises
IntentBranch(st) ==
    IF route_from_intent(st) \in DOMAIN IntentPathMap
    THEN IntentPathMap[route_from_intent(st)]
    ELSE "raised"

\* what a node that ran triggers
Successors(n, st) ==
    IF n = "router" THEN {IntentBranch(st)}
    ELSE {e[2] : e \in {d \in IntentEdges : d[1] = n}}

\* two nodes of one superstep returned the same key (there is no reducer: the graph raises)
Conflict(writes) ==
    \E i, j \in 1..Len(writes) :
        i < j /\ DOMAIN writes[i].update \cap DOMAIN writes[j].update # {}

RECURSIVE ApplyWrites(_, _)
ApplyWrites(st, writes) ==
    IF writes = <<>> THEN st
    ELSE ApplyWrites(Merge(st, Head(writes).update), Tail(writes))

\* the graph after `node` has returned `update`: the superstep goes on while other nodes
\* of it have yet to run; else the updates are applied and the next superstep is set up
AfterTask(node, update) ==
    LET writes == Append(iwrites, [node |-> node, update |-> update])
        left   == itasks \ {node}
        merged == ApplyWrites(istate, writes)
        ran    == {writes[i].node : i \in 1..Len(writes)}
        targets == UNION {Successors(n, merged) : n \in ran}
    IN  IF left # {}
        THEN [pc |-> "run", state |-> istate, tasks |-> left, writes |-> writes]
        ELSE IF Conflict(writes) \/ "raised" \in targets
        THEN [pc |-> "raised", state |-> istate, tasks |-> {}, writes |-> <<>>]
        ELSE IF targets \ {END} = {}
        THEN [pc |-> END, state |-> merged, tasks |-> {}, writes |-> <<>>]
        ELSE [pc |-> "run", state |-> merged, tasks |-> targets \ {END}, writes |-> <<>>]

IntentRan(node, update) ==
    Append(itrace, [node |-> node, input |-> Blackboard(istate), update |-> update])

\* the plan-queue graph and the extractors, not invoked
EngineIdle ==
    /\ pc = "idle"
    /\ state = <<>>
    /\ resp = <<>>
    /\ trace = <<>>

ExtractIdle ==
    /\ xpc = "idle"
    /\ xtext = <<>>
    /\ xfirst = NoIds
    /\ xsecond = NoIds

\* app = build_graph(); app.invoke({"user_question": q})
InitIntent ==
    /\ ipc = "run"
    /\ \E q \in IntentQuestions : istate = [user_question |-> q]
    /\ iresp = NoRouterResp
    /\ itasks = {"router"}
    /\ iwrites = <<>>
    /\ itrace = <<>>
    /\ EngineIdle
    /\ ExtractIdle
    /\ ReactIdle

IntentRouter ==
    /\ ipc = "run"
    /\ "router" \in itasks
    /\ \E r \in RouterResponses :
         LET out == llm_router_node(istate, r)
         IN  /\ iresp' = r
             /\ IF out.raised
                THEN /\ ipc' = "raised"
                     /\ UNCHANGED <<istate, itasks, iwrites, itrace>>
                ELSE /\ ipc' = AfterTask("router", out.update).pc
                     /\ istate' = AfterTask("router", out.update).state
                     /\ itasks' = AfterTask("router", out.update).tasks
                     /\ iwrites' = AfterTask("router", out.update).writes
                     /\ itrace' = IntentRan("router", out.update)
    /\ UNCHANGED <<engineVars, extractVars, reactVars>>

Scheduling ==
    /\ ipc = "run"
    /\ "scheduling" \in itasks
    /\ ipc' = AfterTask("scheduling", scheduling_node(istate)).pc
    /\ istate' = AfterTask("scheduling", scheduling_node(istate)).state
    /\ itasks' = AfterTask("scheduling", scheduling_node(istate)).tasks
    /\ iwrites' = AfterTask("scheduling", scheduling_node(istate)).writes
    /\ itrace' = IntentRan("scheduling", scheduling_node(istate))
    /\ UNCHANGED <<iresp, engineVars, extractVars, reactVars>>

ServiceInsights ==
    /\ ipc = "run"
    /\ "service_insights" \in itasks
    /\ ipc' = AfterTask("service_insights", service_insights_node(istate)).pc
    /\ istate' = AfterTask("service_insights", service_insights_node(istate)).state
    /\ itasks' = AfterTask("service_insights", service_insights_node(istate)).tasks
    /\ iwrites' = AfterTask("service_insights", service_insights_node(istate)).writes
    /\ itrace' = IntentRan("service_insights", service_insights_node(istate))
    /\ UNCHANGED <<iresp, engineVars, extractVars, reactVars>>

KnowledgeAccess ==
    /\ ipc = "run"
    /\ "knowledge_access" \in itasks
    /\ ipc' = AfterTask("knowledge_access", knowledge_access_node(istate)).pc
    /\ istate' = AfterTask("knowledge_access", knowledge_access_node(istate)).state
    /\ itasks' = AfterTask("knowledge_access", knowledge_access_node(istate)).tasks
    /\ iwrites' = AfterTask("knowledge_access", knowledge_access_node(istate)).writes
    /\ itrace' = IntentRan("knowledge_access", knowledge_access_node(istate))
    /\ UNCHANGED <<iresp, engineVars, extractVars, reactVars>>

IntentFinalAnswer ==
    /\ ipc = "run"
    /\ "final_answer" \in itasks
    /\ \E content \in Answers :
         /\ ipc' = AfterTask("final_answer", intent_final_answer_node(istate, content)).pc
         /\ istate' = AfterTask("final_answer", intent_final_answer_node(istate, content)).state
         /\ itasks' = AfterTask("final_answer", intent_final_answer_node(istate, content)).tasks
         /\ iwrites' = AfterTask("final_answer", intent_final_answer_node(istate, content)).writes
         /\ itrace' = IntentRan("final_answer", intent_final_answer_node(istate, content))
    /\ UNCHANGED <<iresp, engineVars, extractVars, reactVars>>

NextIntent ==
    \/ IntentRouter
    \/ Scheduling
    \/ ServiceInsights
    \/ KnowledgeAccess
    \/ IntentFinalAnswer

SpecIntent == InitIntent /\ [][NextIntent]_vars

----------------------------------------------------------------------------
(* Claims about the intent-router graph (checked under SpecIntent) *)

\* the nodes executed so far, in the order they ran
IntentExecuted == [i \in 1..Len(itrace) |-> itrace[i].node]

\* the intent the router returned
RoutedIntent == itrace[1].update.intent

\* the flow the claim states for an intent
StatedFlow(intent) ==
    CASE intent = "schedule_flow" ->
            <<"router", "scheduling", "service_insights", "knowledge_access", "final_answer">>
      [] intent = "insights_only" -> <<"router", "service_insights", "final_answer">>
      [] intent = "knowledge_only" -> <<"router", "knowledge_access", "final_answer">>
      [] intent = "unknown" -> <<"router", "final_answer">>

\* C18 (as stated): each intent runs its own flow and nothing else: the nodes executed
\* are at every moment a prefix of the flow of the intent, the whole flow when the run
\* has ended; insights_only never runs knowledge_access.
C18_EachIntentRunsItsFlow ==
    (itrace # <<>> /\ RoutedIntent \in Intent) =>
        /\ IsPrefix(IntentExecuted, StatedFlow(RoutedIntent))
        /\ ipc = END => IntentExecuted = StatedFlow(RoutedIntent)
        /\ RoutedIntent = "insights_only" => "knowledge_access" \notin Range(IntentExecuted)

\* C19: when the router's response is not JSON the run does not raise, the intent is
\* "unknown", neither identifier is written, no specialist node runs, and the run is
\* router, final_answer, END with final_answer written.
C19_UnparseableRoutesToFinalAnswer ==
    iresp.kind = "not_json" =>
        /\ ipc # "raised"
        /\ istate.intent = "unknown"
        /\ itrace[1].update = [intent |-> "unknown"]
        /\ "work_order_id" \notin DOMAIN istate
        /\ "product_id" \notin DOMAIN istate
        /\ Len(itrace) <= 2
        /\ Len(itrace) = 1 => ipc = "run" /\ itasks = {"final_answer"}
        /\ Len(itrace) = 2 =>
             /\ ipc = END
             /\ IntentExecuted = <<"router", "final_answer">>
             /\ istate.final_answer \in Answers

\* C19 witness: the run on a response that is not JSON has ended with a final answer
C19_Witness ==
    /\ ipc = END
    /\ iresp.kind = "not_json"
    /\ IntentExecuted = <<"router", "final_answer">>
    /\ istate.final_answer \in Answers

IdentifierKeys == {"work_order_id", "product_id"}

\* the i-th node the intent-router graph executed is a specialist that found its
\* identifier missing (absent or empty)
IntentMissingRun(i) ==
    \/ itrace[i].node = "service_insights" /\ NotGet(itrace[i].input, "work_order_id")
    \/ itrace[i].node = "knowledge_access" /\ NotGet(itrace[i].input, "product_id")

\* the plan-queue half of C21: a consumer step that found its identifier missing
\* returned its result key alone
PlanQueueMissingStepFrame ==
    \A i \in 1..Len(trace) :
        MissingRun(i) => DOMAIN trace[i].update = {ResultKey(trace[i].node)}

\* the intent-router half of C21: a specialist that found its identifier missing
\* returned neither identifier key, and the identifiers it read are the identifiers
\* of the state once its update is merged
IntentRouterMissingStepFrame ==
    \A i \in 1..Len(itrace) :
        IntentMissingRun(i) =>
            /\ DOMAIN itrace[i].update \cap IdentifierKeys = {}
            /\ \A k \in IdentifierKeys \cap DOMAIN itrace[i].input :
                 Merge(itrace[i].input, itrace[i].update)[k] = itrace[i].input[k]

\* C21 (as stated): in the plan-queue and in the intent-router graph a specialist that
\* finds its identifier missing writes only its own result key and leaves work_order_id
\* and product_id as they were; a seeded product_id keeps its seeded value.
C21_MissingStepLeavesIdentifiers ==
    /\ PlanQueueMissingStepFrame
    /\ IntentRouterMissingStepFrame

\* the specialist nodes of the flow of an intent
FlowSpecialists(intent) == Range(StatedFlow(intent)) \ {"router", "final_answer"}

\* C22 (as stated): for every intent final_answer has run exactly once when the run has
\* ended, and whenever it runs every specialist node of the flow has run before it and
\* the state it reads holds that node's output.
C22_FinalAnswerOnceAfterFlow ==
    (itrace # <<>> /\ RoutedIntent \in Intent) =>
        /\ ipc = END => Count(IntentExecuted, "final_answer") = 1
        /\ \A i \in 1..Len(itrace) :
             itrace[i].node = "final_answer" =>
                \A n \in FlowSpecialists(RoutedIntent) :
                    \E j \in 1..(i - 1) :
                        /\ itrace[j].node = n
                        /\ \A k \in DOMAIN itrace[j].update :
                             /\ k \in DOMAIN itrace[i].input
                             /\ itrace[i].input[k] = itrace[j].update[k]

----------------------------------------------------------------------------
(* The tool-calling graph of lg-multi-agent-react.py *)

\* the names of TOOLS
ToolNames == {"scheduling_service", "service_insights_service", "knowledge_access_service"}

\* a message: its type, the names of the tools an AI message calls, in order
\* (tool_calls; no other message has any), and for a tool message the tool that ran
Message(type, tool_calls, name) == [type |-> type, tool_calls |-> tool_calls, name |-> name]
SystemMessage == Message("system", <<>>, "")
HumanMessage == Message("human", <<>>, "")
AIMessage(tool_calls) == Message("ai", tool_calls, "")
ToolMessage(name) == Message("tool", <<>>, name)

\* what model_with_tools.invoke may return: an answer, or calls of the bound tools
BrainResponses == {AIMessage(calls) : calls \in SeqsUpTo(ToolNames, MaxToolCalls)}

\* the reducer add_messages: the returned messages are appended
add_messages(left, right) == left \o right

\* return {"messages": [response]}
brain_node(msgs, response) == <<response>>

\* ToolNode(TOOLS): one ToolMessage per tool call of the last message, in order
ToolNode(msgs) ==
    LET calls == msgs[Len(msgs)].tool_calls
    IN  [i \in 1..Len(calls) |-> ToolMessage(calls[i])]

\* a variant that looks at the first message
should_continue_FirstMessage(msgs) ==
    IF msgs[1].tool_calls # <<>> THEN "tools" ELSE END

\* last_msg = state["messages"][-1]; tool_calls = getattr(last_msg, "tool_calls", None)
should_continue(msgs) ==
    IF msgs[Len(msgs)].tool_calls # <<>> THEN "tools" ELSE END

\* the path map of add_conditional_edges("brain", should_continue, {...})
ReactPathMap == [r \in {"tools", END} |-> r]

\* the responses the model has given in this run
BrainTurns == Cardinality({i \in 1..Len(messages) : messages[i].type = "ai"})

\* app.invoke({"messages": [SystemMessage(...), HumanMessage(...)]})
InitReact ==
    /\ rpc = "brain"
    /\ messages = <<SystemMessage, HumanMessage>>
    /\ EngineIdle
    /\ ExtractIdle
    /\ IntentIdle

Brain ==
    /\ rpc = "brain"
    /\ BrainTurns < MaxBrainTurns
    /\ \E response \in BrainResponses :
         /\ messages' = add_messages(messages, brain_node(messages, response))
         /\ rpc' = ReactPathMap[should_continue(add_messages(messages, brain_node(messages, response)))]
    /\ UNCHANGED <<engineVars, extractVars, intentVars>>

\* add_edge("tools", "brain")
Tools ==
    /\ rpc = "tools"
    /\ messages' = add_messages(messages, ToolNode(messages))
    /\ rpc' = "brain"
    /\ UNCHANGED <<engineVars, extractVars, intentVars>>

NextReact == Brain \/ Tools

SpecReact == InitReact /\ [][NextReact]_vars

----------------------------------------------------------------------------
(* Claims about the tool-calling graph (checked under SpecReact) *)

LastMessage == messages[Len(messages)]
\* the last message is a response of the model that calls tools
PendingToolCalls == LastMessage.type = "ai" /\ LastMessage.tool_calls # <<>>

\* C20: the tools node runs only right after a response of the brain that holds tool
\* calls, the brain runs after the tools node, and after the brain the run ends exactly
\* when its response holds no tool calls; a run that has ended has no tool call pending.
C20_ToolLoop ==
    /\ [](rpc = "tools" => PendingToolCalls)
    /\ [](rpc = END => LastMessage.type = "ai" /\ LastMessage.tool_calls = <<>>)
    /\ [][/\ rpc' = "tools" => rpc = "brain"
          /\ rpc = "tools" => rpc' = "brain"
          /\ rpc = "brain" =>
               /\ rpc' \in {"tools", END}
               /\ (rpc' = END) <=> (messages'[Len(messages')].tool_calls = <<>>)
               /\ (rpc' = "tools") <=> (messages'[Len(messages')].tool_calls # <<>>)]_vars

\* C20 witness: the brain called two tools, the tools node ran them, the brain then
\* answered without a tool call and the run ended
C20_Witness ==
    /\ rpc = END
    /\ Len(messages) = 6
    /\ Len(messages[3].tool_calls) = 2
    /\ messages[4].type = "tool"
    /\ messages[5].type = "tool"
    /\ messages[6] = AIMessage(<<>>)

====
